---- MODULE Spec2Model ----
(***************************************************************************)
(* A model of background.js, the background page of the Rating-Tracker     *)
(* browser extension: the badge countdown (refreshTimer), the daily and    *)
(* weekly totals kept in chrome.storage, the goal notifications, the       *)
(* message and storage-change listeners and the install listener.          *)
(*                                                                         *)
(* JavaScript values are tagged records, so that the language's            *)
(* conversions (typeof, truthiness, +, -, <) are modelled by what they do. *)
(* The event loop is a FIFO queue of pending platform callbacks: a storage *)
(* read takes its snapshot when it is issued, a storage write is applied   *)
(* when it is issued, and callbacks and change events are delivered in the *)
(* order in which they were scheduled.  One action is one run-to-completion*)
(* turn of the event loop.                                                 *)
(***************************************************************************)
EXTENDS Integers, Sequences, FiniteSets, TLC

VARIABLES
    refreshTimer,   \* the refreshTimer object: [time, startTime, interval]
    intervals,      \* window's active setInterval timers: handle -> due time (ms)
    nextHandle,     \* the next handle window.setInterval returns
    badgeText,      \* the text last given to chrome.browserAction.setBadgeText
    now,            \* wall clock, milliseconds
    today,          \* the local calendar day, as an index into the calendar window
    sync,           \* chrome.storage.sync: key -> value
    local,          \* chrome.storage.local: key -> value
    queue,          \* pending platform callbacks and change events, FIFO
    sent,           \* chrome.runtime.sendMessage calls, in order
    notifications,  \* chrome.notifications.create calls (their message), in order
    errorLogs,      \* number of 'ERROR: Couldnt calculate weekly work hours.' lines
    uncaught,       \* number of exceptions thrown out of a callback
    budget,         \* inputs the environment may still give: kind -> count
    last,           \* what the last turn of the event loop was (history)
    events,         \* the changes of today's total the change listener saw (history)
    run             \* the countdown since the last start() or clear() (history)

vars == <<refreshTimer, intervals, nextHandle, badgeText, now, today, sync, local,
          queue, sent, notifications, errorLogs, uncaught, budget, last, events, run>>

timerVars == <<refreshTimer, intervals, nextHandle, badgeText>>
storeVars == <<sync, local>>
outVars   == <<sent, notifications, errorLogs, uncaught>>

-----------------------------------------------------------------------------
(* Bounds of the model *)

\* largest seconds value a refresh-timer message carries
MaxTime == 3
\* number of half-second steps the wall clock takes in the countdown model
MaxClockSteps == 11
\* refresh-timer messages the content script sends
MaxRefreshMsgs == 2
\* saves of refreshTimerSetting by the settings page
MaxSaves == 2
\* minutes the wall clock runs in the model of the task sessions
MaxMinutes == 2
\* tasks the content script starts
MaxTasks == 2
\* submit-task messages
MaxSubmits == 2
\* cancel-task messages
MaxCancels == 1
\* weekly reads the platform fails
MaxFailures == 1
\* midnights that pass
MaxMidnights == 1
\* install events
MaxInstalls == 1
\* totals reported to handleNotifications in the model of the settings
MaxReports == 1
\* totals another device stores under today's key in the model of the weekly total
MaxRemoteTotals == 1
\* writes to the local partition by other parts of the extension
MaxLocalSaves == 2

-----------------------------------------------------------------------------
(* JavaScript values *)

\* A value has a type tag and one field for each primitive type, so that two
\* values of different types are still comparable.
Num(n)    == [t |-> "number",    n |-> n, s |-> "", b |-> FALSE]
Str(s)    == [t |-> "string",    n |-> 0, s |-> s,  b |-> FALSE]
Bool(b)   == [t |-> "boolean",   n |-> 0, s |-> "", b |-> b]
NaN       == [t |-> "NaN",       n |-> 0, s |-> "", b |-> FALSE]
Null      == [t |-> "null",      n |-> 0, s |-> "", b |-> FALSE]
Undefined == [t |-> "undefined", n |-> 0, s |-> "", b |-> FALSE]

\* typeof v
TypeOf(v) ==
    CASE v.t = "number"    -> "number"
      [] v.t = "NaN"       -> "number"
      [] v.t = "string"    -> "string"
      [] v.t = "boolean"   -> "boolean"
      [] v.t = "null"      -> "object"
      [] v.t = "undefined" -> "undefined"

\* ToBoolean: what `if (v)` and `a && b` test
Truthy(v) ==
    CASE v.t = "number"    -> v.n # 0
      [] v.t = "NaN"       -> FALSE
      [] v.t = "string"    -> v.s # ""
      [] v.t = "boolean"   -> v.b
      [] v.t = "null"      -> FALSE
      [] v.t = "undefined" -> FALSE

\* ToNumber.  Every non-empty string of the model holds a character that is no
\* digit, so it converts to NaN
ToNumber(v) ==
    CASE v.t = "number"    -> v
      [] v.t = "NaN"       -> NaN
      [] v.t = "string"    -> IF v.s = "" THEN Num(0) ELSE NaN
      [] v.t = "boolean"   -> IF v.b THEN Num(1) ELSE Num(0)
      [] v.t = "null"      -> Num(0)
      [] v.t = "undefined" -> NaN

\* ToString (v + '')
JsToString(v) ==
    CASE v.t = "number"    -> ToString(v.n)
      [] v.t = "NaN"       -> "NaN"
      [] v.t = "string"    -> v.s
      [] v.t = "boolean"   -> IF v.b THEN "true" ELSE "false"
      [] v.t = "null"      -> "null"
      [] v.t = "undefined" -> "undefined"

\* a + b: concatenation when either side is a string, else numeric
JsAdd(a, b) ==
    IF a.t = "string" \/ b.t = "string"
    THEN Str(JsToString(a) \o JsToString(b))
    ELSE LET x == ToNumber(a)
             y == ToNumber(b)
         IN  IF x.t = "NaN" \/ y.t = "NaN" THEN NaN ELSE Num(x.n + y.n)

\* a - b
JsSub(a, b) ==
    LET x == ToNumber(a)
        y == ToNumber(b)
    IN  IF x.t = "NaN" \/ y.t = "NaN" THEN NaN ELSE Num(x.n - y.n)

\* a * b
JsMul(a, b) ==
    LET x == ToNumber(a)
        y == ToNumber(b)
    IN  IF x.t = "NaN" \/ y.t = "NaN" THEN NaN ELSE Num(x.n * y.n)

\* a / k for a positive number k; the clock of the model makes every quotient
\* this program takes a whole number
JsDiv(a, k) ==
    LET x == ToNumber(a)
    IN  IF x.t = "NaN" THEN NaN ELSE Num(x.n \div k)

\* a < b where at most one side is a string: false when either side is NaN
JsLess(a, b) ==
    LET x == ToNumber(a)
        y == ToNumber(b)
    IN  x.t # "NaN" /\ y.t # "NaN" /\ x.n < y.n

\* a <= b
JsLessEq(a, b) ==
    LET x == ToNumber(a)
        y == ToNumber(b)
    IN  x.t # "NaN" /\ y.t # "NaN" /\ x.n <= y.n

\* a === b
StrictEq(a, b) == a.t = b.t /\ a.t # "NaN" /\ a = b

\* obj[key]: undefined for a property the object does not have
Prop(obj, key) == IF key \in DOMAIN obj THEN obj[key] ELSE Undefined

\* the object with the properties of both, those of `over` winning
Assign(obj, over) ==
    [k \in DOMAIN obj \cup DOMAIN over |-> IF k \in DOMAIN over THEN over[k] ELSE obj[k]]

\* the object restricted to the properties named
Pick(obj, keys) == [k \in DOMAIN obj \cap keys |-> obj[k]]

EmptyObject == [k \in {} |-> Undefined]

-----------------------------------------------------------------------------
(* refreshTimer: the countdown on the extension's badge.  The operations   *)
(* act on a record w = [rt, iv, nh, badge]: the refreshTimer object, the   *)
(* window's active intervals, the next interval handle, the badge text.    *)

\* the period of the recurring callback, in milliseconds
TickPeriod == 1000

\* window.setInterval(refreshTimer.update, 1000): a new timer, first due a period from now
setInterval(w, clock) ==
    [w EXCEPT !.iv = (w.nh :> (clock + TickPeriod)) @@ w.iv, !.nh = w.nh + 1]

\* window.clearInterval(id): cancels the timer if id names an active one
clearInterval(w, id) ==
    IF id.t = "number" /\ id.n \in DOMAIN w.iv
    THEN [w EXCEPT !.iv = [h \in DOMAIN w.iv \ {id.n} |-> w.iv[h]]]
    ELSE w

setBadgeText(w, text) == [w EXCEPT !.badge = text]

clear(w) == setBadgeText(clearInterval(w, w.rt.interval), "")

\* update with the expiry test one too early: the countdown never shows 0
updateExpiresAtZero(w) ==
    IF w.rt.time <= 0
    THEN clear(w)
    ELSE [setBadgeText(w, ToString(w.rt.time)) EXCEPT !.rt.time = w.rt.time - 1]

\* update without the expiry test: the countdown goes on below zero
updateNeverExpires(w) ==
    [setBadgeText(w, ToString(w.rt.time)) EXCEPT !.rt.time = w.rt.time - 1]

\* update with the expiry test one too late: the countdown shows -1
updateExpiresLate(w) ==
    IF w.rt.time < -1
    THEN clear(w)
    ELSE [setBadgeText(w, ToString(w.rt.time)) EXCEPT !.rt.time = w.rt.time - 1]

update(w) ==
    IF w.rt.time < 0
    THEN clear(w)
    ELSE [setBadgeText(w, ToString(w.rt.time)) EXCEPT !.rt.time = w.rt.time - 1]

start(w, time, clock) ==
    LET w1 == [w EXCEPT !.rt.time = time, !.rt.startTime = Num(clock)]
    IN  [setInterval(w1, clock) EXCEPT !.rt.interval = Num(w1.nh)]

restart(w, clock) ==
    IF w.rt.time <= 0
    THEN w
    ELSE LET timePassed == JsSub(Num(clock), w.rt.startTime).n
             w1 == [w EXCEPT !.rt.time = w.rt.time - (timePassed \div TickPeriod)]
         IN  IF w1.rt.time > 0
             THEN LET w2 == update(w1)
                  IN  [setInterval(w2, clock) EXCEPT !.rt.interval = Num(w2.nh)]
             ELSE w1

World == [rt |-> refreshTimer, iv |-> intervals, nh |-> nextHandle, badge |-> badgeText]

SetWorld(w) ==
    /\ refreshTimer' = w.rt
    /\ intervals' = w.iv
    /\ nextHandle' = w.nh
    /\ badgeText' = w.badge

-----------------------------------------------------------------------------
(* Date: the model's calendar is the fortnight from Sunday 28 January 2024 *)
(* to Saturday 10 February 2024; a Date is the index of its day in it.     *)

getDay(date)      == date % 7
getMonth(date)    == IF date < 4 THEN 0 ELSE 1
getDate(date)     == IF date < 4 THEN 28 + date ELSE date - 3
getFullYear(date) == 2024
\* date.setDate(n): the day of the month becomes n, months rolling over
setDate(date, n)  == date + (n - getDate(date))

getSpecificDateKey(dateObj) ==
    ToString(getMonth(dateObj)) \o "/" \o ToString(getDate(dateObj))
        \o "/" \o ToString(getFullYear(dateObj))

getDateKey == getSpecificDateKey(today)

getValue(data, key, defaultValue) ==
    LET result == Prop(data, key)
    IN  IF TypeOf(result) = "undefined" THEN defaultValue ELSE result

-----------------------------------------------------------------------------
(* chrome.storage: get, set and the change event of a set *)

\* area.get(keys): the stored items among keys, as they are when the read is issued
storageGet(area, keys) == Pick(area, keys)

\* the change object of one key: oldValue is missing for a key that was not stored
StorageChange(area, key, newValue) ==
    IF key \in DOMAIN area
    THEN [f \in {"oldValue", "newValue"} |-> IF f = "oldValue" THEN area[key] ELSE newValue]
    ELSE [f \in {"newValue"} |-> newValue]

\* the changes a set makes: one entry for every key whose value changes
Changes(area, items) ==
    [key \in {k \in DOMAIN items : Prop(area, k) # items[k]} |->
        StorageChange(area, key, items[key])]

\* the queue after a set: onChanged is scheduled when anything changed
QueueChange(q, areaName, area, items) ==
    IF DOMAIN Changes(area, items) = {}
    THEN q
    ELSE Append(q, [k |-> "changed", areaName |-> areaName, changes |-> Changes(area, items)])

\* Object.values(items): the values of the stored items, in the order of the keys asked for
RECURSIVE ObjectValues(_, _)
ObjectValues(items, keys) ==
    IF keys = <<>> THEN <<>>
    ELSE (IF Head(keys) \in DOMAIN items THEN <<items[Head(keys)]>> ELSE <<>>)
            \o ObjectValues(items, Tail(keys))

-----------------------------------------------------------------------------
(* submitHours and calculateWeekHours *)

MsPerMinute == 60000

\* the minutes credited without the ceiling
minutesWorkedUncapped(taskInfo, clock) ==
    JsDiv(JsSub(Num(clock), Prop(taskInfo, "taskTimestamp")), MsPerMinute)

\* the body of the inner callback of submitHours: the minutes credited for the task
minutesWorkedOf(taskInfo, clock) ==
    LET taskTimeLimit   == Prop(taskInfo, "taskTime")
        currentTime     == Num(clock)
        taskTimeElapsed == JsSub(currentTime, Prop(taskInfo, "taskTimestamp"))
        minutesElapsed  == JsDiv(taskTimeElapsed, MsPerMinute)
    IN  IF JsLess(minutesElapsed, taskTimeLimit) THEN minutesElapsed ELSE taskTimeLimit

\* the total computed from the value stored at the time of the write instead of
\* the value read by the outer callback
totalMinutesFresh(data, dateString, taskInfo, clock) ==
    JsAdd(getValue(sync, dateString, Num(0)), minutesWorkedOf(taskInfo, clock))

\* the total submitHours writes under dateString
totalMinutesOf(data, dateString, taskInfo, clock) ==
    LET minutesRecorded == getValue(data, dateString, Num(0))
    IN  JsAdd(minutesRecorded, minutesWorkedOf(taskInfo, clock))

\* the seven date keys of calculateWeekHours, Sunday first
RECURSIVE weekKeysFrom(_, _)
weekKeysFrom(date, i) ==
    IF i >= 7 THEN <<>>
    ELSE <<getSpecificDateKey(date)>> \o weekKeysFrom(setDate(date, getDate(date) + 1), i + 1)

dateKeys(date) == weekKeysFrom(setDate(date, getDate(date) - getDay(date)), 0)

SeqRange(s) == {s[i] : i \in 1..Len(s)}

\* the loop of calculateWeekHours over Object.values(items)
RECURSIVE sumValues(_, _)
sumValues(totalMinutes, values) ==
    IF values = <<>> THEN totalMinutes
    ELSE sumValues(IF ~StrictEq(Head(values), Str("undefined"))
                   THEN JsAdd(totalMinutes, Head(values))
                   ELSE totalMinutes,
                   Tail(values))

\* the callback of the batched read of calculateWeekHours: how the promise is
\* settled.  A failed read calls back with no items, and Object.values(undefined)
\* throws out of the callback, which leaves the promise pending.
weekCallback(read, keys) ==
    IF ~read.ok
    THEN [state |-> "threw", value |-> Undefined]
    ELSE LET totalMinutes == sumValues(Num(0), ObjectValues(read.items, keys))
         IN  IF StrictEq(totalMinutes, Str("undefined"))
             THEN [state |-> "rejected", value |-> Null]
             ELSE [state |-> "resolved", value |-> totalMinutes]

-----------------------------------------------------------------------------
(* getNotificationString and handleNotifications *)

\* n.toFixed(2), for the whole numbers of the model
toFixed2(n) == ToString(n.n) \o ".00"

\* getNotificationString with the threshold test strict
getNotificationStringStrict(periodID, storage, minutesWorked) ==
    LET goalHours   == Prop(storage, periodID \o "HourGoal")
        goalMinutes == JsMul(goalHours, Num(60))
    IN  IF JsLess(minutesWorked, goalMinutes)
        THEN IF Truthy(Prop(storage, "beforeGoalNotificationsSetting"))
                /\ JsLess(JsSub(goalMinutes, minutesWorked), Prop(storage, "notificationMinutes"))
             THEN "You are " \o toFixed2(JsSub(goalMinutes, minutesWorked))
                    \o " minutes away from achieving your " \o periodID \o " goal! "
             ELSE ""
        ELSE IF Truthy(Prop(storage, "goalNotificationsSetting"))
             THEN "You have achieved your " \o periodID \o " goal of "
                    \o JsToString(goalHours) \o " hours! "
             ELSE ""

getNotificationString(periodID, storage, minutesWorked) ==
    LET goalHours   == Prop(storage, periodID \o "HourGoal")
        goalMinutes == JsMul(goalHours, Num(60))
    IN  IF JsLess(minutesWorked, goalMinutes)
        THEN LET timeDifference == JsSub(goalMinutes, minutesWorked)
                 beforeGoalNotificationEnabled == Prop(storage, "beforeGoalNotificationsSetting")
                 notificationMinutes == Prop(storage, "notificationMinutes")
             IN  IF Truthy(beforeGoalNotificationEnabled)
                    /\ JsLessEq(timeDifference, notificationMinutes)
                 THEN "You are " \o toFixed2(timeDifference)
                        \o " minutes away from achieving your " \o periodID \o " goal! "
                 ELSE ""
        ELSE LET goalNotificationEnabled == Prop(storage, "goalNotificationsSetting")
             IN  IF Truthy(goalNotificationEnabled)
                 THEN "You have achieved your " \o periodID \o " goal of "
                        \o JsToString(goalHours) \o " hours! "
                 ELSE ""

NotificationKeys ==
    {"dailyHourGoal", "weeklyHourGoal", "beforeGoalNotificationsSetting",
     "notificationMinutes", "goalNotificationsSetting"}

\* the text handleNotifications' callback builds from the settings it read
notificationTextOf(storage, dailyMinutes, weeklyMinutes) ==
    LET dailyNotification  == getNotificationString("daily", storage, dailyMinutes)
        weeklyNotification == getNotificationString("weekly", storage, weeklyMinutes)
    IN  dailyNotification \o weeklyNotification

\* handleNotifications(dailyMinutes, weeklyMinutes): the read it issues
handleNotifications(q, dailyMinutes, weeklyMinutes, ev) ==
    Append(q, [k |-> "notifGot", dailyMinutes |-> dailyMinutes,
               weeklyMinutes |-> weeklyMinutes, ev |-> ev,
               storage |-> storageGet(sync, NotificationKeys)])

-----------------------------------------------------------------------------
(* The install listener *)

\* the defaults of the install listener, in the order of its set calls
Defaults ==
    << <<"minTime", Num(30)>>, <<"maxTime", Num(60)>>,
       <<"refreshSetting", Bool(TRUE)>>, <<"refreshSoundSetting", Bool(TRUE)>>,
       <<"refreshSoundVolumeSetting", Num(100)>>, <<"refreshTimerSetting", Bool(TRUE)>>,
       <<"timeoutSoundSetting", Bool(TRUE)>>, <<"timeoutSoundVolumeSetting", Num(100)>>,
       <<"dailyHourDisplaySetting", Bool(TRUE)>>, <<"weeklyHourDisplaySetting", Bool(TRUE)>>,
       <<"taskWebsiteSetting", Bool(FALSE)>>, <<"taskWebsiteURLSetting", Str("")>>,
       <<"employeeWebsiteSetting", Bool(FALSE)>>, <<"employeeWebsiteURLSetting", Str("")>>,
       <<"timesheetWebsiteSetting", Bool(FALSE)>>, <<"timesheetWebsiteURLSetting", Str("")>>,
       <<"dynamicGoalsSetting", Bool(FALSE)>>, <<"dailyHourGoal", Num(8)>>,
       <<"weeklyHourGoal", Num(20)>>, <<"goalNotificationsSetting", Bool(TRUE)>>,
       <<"beforeGoalNotificationsSetting", Bool(TRUE)>>, <<"notificationMinutes", Num(15)>> >>

\* the store and the queue after the set calls of `pairs`, one after the other
RECURSIVE setEach(_, _)
setEach(sq, pairs) ==
    IF pairs = <<>> THEN sq
    ELSE LET items == (Head(pairs)[1] :> Head(pairs)[2])
         IN  setEach([area |-> Assign(sq.area, items),
                      q    |-> QueueChange(sq.q, "sync", sq.area, items)],
                     Tail(pairs))

\* the condition of the install listener
isInstall(details) == StrictEq(Prop(details, "OnInstalledReason"), Str("install"))

\* chrome.runtime.onInstalled listener
OnInstalled(details) ==
    /\ budget.install > 0
    /\ budget' = [budget EXCEPT !.install = @ - 1]
    /\ LET after == IF isInstall(details)
                    THEN setEach([area |-> sync, q |-> queue], Defaults)
                    ELSE [area |-> sync, q |-> queue]
       IN  /\ sync' = after.area
           /\ queue' = after.q
    /\ last' = [k |-> "installed", details |-> details]
    /\ UNCHANGED <<timerVars, now, today, local, outVars, run, events>>

-----------------------------------------------------------------------------
(* The message listener and the callbacks of its storage reads *)

\* history of the countdown: `on` after a start() that no other call has followed,
\* with its value n and the ticks since; `cleared` after a clear() that no start()
\* or restart() has followed; `warm` when that clear() followed a start() directly
NoRun == [on |-> FALSE, n |-> 0, ticks |-> 0, cleared |-> FALSE, warm |-> FALSE]

\* chrome.runtime.onMessage listener
OnMessage(request) ==
    LET status == Prop(request, "status")
    IN  /\ last' = [k |-> "message", request |-> request]
        /\ IF StrictEq(status, Str("cancel-task"))
           THEN /\ queue' = Append(queue, [k |-> "cancelGot",
                                           status |-> storageGet(local, {"taskActive"})])
                /\ UNCHANGED <<timerVars, run>>
           ELSE IF StrictEq(status, Str("submit-task"))
           THEN /\ queue' = Append(queue, [k |-> "submitGot",
                                           status |-> storageGet(local, {"taskActive"})])
                /\ UNCHANGED <<timerVars, run>>
           ELSE IF StrictEq(status, Str("refresh-timer"))
           THEN /\ SetWorld(start(clear(World), Prop(request, "time").n, now))
                /\ run' = [NoRun EXCEPT !.on = TRUE, !.n = Prop(request, "time").n]
                /\ UNCHANGED queue
           ELSE UNCHANGED <<queue, timerVars, run>>
        /\ UNCHANGED <<now, today, sync, local, outVars, events>>

\* the test of taskActive left out
taskActiveUnchecked(status) == TRUE

\* if (status['taskActive'])
taskActive(status) == Truthy(Prop(status, "taskActive"))

\* a cancel that leaves the ceiling of the task stored
ClearedSessionKeepingCeiling ==
    [key \in {"taskID", "taskTimestamp", "taskActive"} |->
        CASE key = "taskID"        -> Num(-1)
          [] key = "taskTimestamp" -> Null
          [] key = "taskActive"    -> Bool(FALSE)]

\* what cancel-task stores
ClearedSession ==
    [key \in {"taskID", "taskTimestamp", "taskTime", "taskActive"} |->
        CASE key = "taskID"        -> Num(-1)
          [] key = "taskTimestamp" -> Null
          [] key = "taskTime"      -> Num(0)
          [] key = "taskActive"    -> Bool(FALSE)]

\* the callback of cancel-task's read of taskActive
CancelGot ==
    /\ queue # <<>>
    /\ Head(queue).k = "cancelGot"
    /\ LET status == Head(queue).status
       IN  /\ IF taskActive(status)
              THEN /\ local' = Assign(local, ClearedSession)
                   /\ queue' = QueueChange(Tail(queue), "local", local, ClearedSession)
              ELSE /\ local' = local
                   /\ queue' = Tail(queue)
           /\ last' = [k |-> "cancelGot", status |-> status]
    /\ UNCHANGED <<timerVars, now, today, sync, outVars, budget, events, run>>

\* submitHours(): the read of today's total it issues
submitHours(q) ==
    LET dateString == getDateKey
    IN  Append(q, [k |-> "hoursSync", dateString |-> dateString,
                   data |-> storageGet(sync, {dateString})])

\* the callback of submit-task's read of taskActive
SubmitGot ==
    /\ queue # <<>>
    /\ Head(queue).k = "submitGot"
    /\ LET status == Head(queue).status
       IN  /\ queue' = IF taskActive(status) THEN submitHours(Tail(queue)) ELSE Tail(queue)
           /\ last' = [k |-> "submitGot", status |-> status]
    /\ UNCHANGED <<timerVars, now, today, sync, local, outVars, budget, events, run>>

\* the outer callback of submitHours: it reads the task's timestamp and ceiling
HoursSyncGot ==
    /\ queue # <<>>
    /\ Head(queue).k = "hoursSync"
    /\ queue' = Append(Tail(queue),
                       [k |-> "hoursLocal", dateString |-> Head(queue).dateString,
                        data |-> Head(queue).data,
                        taskInfo |-> storageGet(local, {"taskTimestamp", "taskTime"})])
    /\ last' = [k |-> "hoursSyncGot"]
    /\ UNCHANGED <<timerVars, now, today, sync, local, outVars, budget, events, run>>

\* the inner callback of submitHours: it writes the total and ends the session
HoursLocalGot ==
    /\ queue # <<>>
    /\ Head(queue).k = "hoursLocal"
    /\ LET dateString   == Head(queue).dateString
           data         == Head(queue).data
           taskInfo     == Head(queue).taskInfo
           totalMinutes == totalMinutesOf(data, dateString, taskInfo, now)
           total        == (dateString :> totalMinutes)
           inactive     == ("taskActive" :> Bool(FALSE))
       IN  /\ sync' = Assign(sync, total)
           /\ local' = Assign(local, inactive)
           /\ queue' = QueueChange(QueueChange(Tail(queue), "sync", sync, total),
                                   "local", local, inactive)
           /\ last' = [k |-> "hoursLocalGot", dateString |-> dateString, data |-> data,
                       taskInfo |-> taskInfo, clock |-> now,
                       before |-> Prop(sync, dateString), totalMinutes |-> totalMinutes]
    /\ UNCHANGED <<timerVars, now, today, outVars, budget, events, run>>

-----------------------------------------------------------------------------
(* The storage change listener, the weekly read and the notification read *)

\* the comparison of the change listener turned into newMinutes != oldMinutes
minutesChanged(value) ==
    getValue(value, "oldValue", Num(0)) # getValue(value, "newValue", Num(0))

\* newMinutes > oldMinutes
minutesIncreased(value) ==
    JsLess(getValue(value, "oldValue", Num(0)), getValue(value, "newValue", Num(0)))

\* calculateWeekHours(): the batched read it issues for the change `ev`
calculateWeekHours(q, newMinutes, ev) ==
    LET keys == dateKeys(today)
    IN  Append(q, [k |-> "weekGot", newMinutes |-> newMinutes, ev |-> ev, keys |-> keys,
                   items |-> storageGet(sync, SeqRange(keys))])

\* chrome.storage.onChanged listener
OnChanged ==
    /\ queue # <<>>
    /\ Head(queue).k = "changed"
    /\ LET changes       == Head(queue).changes
           areaName      == Head(queue).areaName
           todaysDateKey == getDateKey
           isToday       == todaysDateKey \in DOMAIN changes
           increased     == isToday /\ minutesIncreased(changes[todaysDateKey])
           isSetting     == "refreshTimerSetting" \in DOMAIN changes
       IN  /\ queue' = IF increased
                       THEN calculateWeekHours(Tail(queue),
                                getValue(changes[todaysDateKey], "newValue", Num(0)),
                                Len(events) + 1)
                       ELSE Tail(queue)
           /\ events' = IF isToday
                        THEN Append(events,
                                [areaName |-> areaName,
                                 oldMinutes |-> getValue(changes[todaysDateKey], "oldValue", Num(0)),
                                 newMinutes |-> getValue(changes[todaysDateKey], "newValue", Num(0)),
                                 read |-> IF increased THEN "pending" ELSE "none",
                                 items |-> EmptyObject, keys |-> <<>>,
                                 msgs |-> <<>>, notes |-> 0])
                        ELSE events
           /\ IF isSetting
              THEN /\ SetWorld(IF Truthy(Prop(changes["refreshTimerSetting"], "newValue"))
                               THEN restart(World, now)
                               ELSE clear(World))
                   /\ run' = IF Truthy(Prop(changes["refreshTimerSetting"], "newValue"))
                             THEN NoRun
                             ELSE IF run.on
                             THEN [run EXCEPT !.on = FALSE, !.cleared = TRUE, !.warm = TRUE]
                             ELSE [NoRun EXCEPT !.cleared = TRUE]
              ELSE UNCHANGED <<timerVars, run>>
           /\ last' = [k |-> "changed", areaName |-> areaName, keys |-> DOMAIN changes,
                       isSetting |-> isSetting,
                       enabled |-> isSetting
                                   /\ Truthy(Prop(changes["refreshTimerSetting"], "newValue")),
                       before |-> World, run |-> run, clock |-> now]
    /\ UNCHANGED <<now, today, sync, local, outVars, budget>>

\* the callback of the weekly read, with the promise's then and catch handlers;
\* ok = FALSE is a read the platform fails
WeekGot(ok) ==
    /\ queue # <<>>
    /\ Head(queue).k = "weekGot"
    /\ ok \/ budget.fail > 0
    /\ budget' = IF ok THEN budget ELSE [budget EXCEPT !.fail = @ - 1]
    /\ LET item    == Head(queue)
           outcome == weekCallback([ok |-> ok, items |-> item.items], item.keys)
           message == [status |-> Str("update-calendar"), timeDay |-> item.newMinutes,
                       timeWeek |-> outcome.value]
       IN  /\ sent' = IF outcome.state = "resolved" THEN Append(sent, message) ELSE sent
           /\ queue' = IF outcome.state = "resolved"
                       THEN handleNotifications(Tail(queue), item.newMinutes,
                                                outcome.value, item.ev)
                       ELSE Tail(queue)
           /\ errorLogs' = IF outcome.state = "rejected" THEN errorLogs + 1 ELSE errorLogs
           /\ uncaught' = IF outcome.state = "threw" THEN uncaught + 1 ELSE uncaught
           /\ events' = [events EXCEPT ![item.ev] =
                            [@ EXCEPT !.read = IF ok THEN outcome.state ELSE "failed",
                                      !.items = item.items, !.keys = item.keys,
                                      !.msgs = IF outcome.state = "resolved"
                                               THEN Append(@, message) ELSE @]]
           /\ last' = [k |-> "weekGot", ok |-> ok, state |-> outcome.state,
                       value |-> outcome.value, items |-> item.items]
    /\ UNCHANGED <<timerVars, now, today, sync, local, notifications, run>>

\* the callback of handleNotifications' read of the settings
NotifGot ==
    /\ queue # <<>>
    /\ Head(queue).k = "notifGot"
    /\ LET item == Head(queue)
           notificationText ==
               notificationTextOf(item.storage, item.dailyMinutes, item.weeklyMinutes)
       IN  /\ notifications' = IF notificationText # ""
                               THEN Append(notifications, notificationText)
                               ELSE notifications
           /\ events' = IF notificationText # "" /\ item.ev \in 1..Len(events)
                        THEN [events EXCEPT ![item.ev].notes = @ + 1]
                        ELSE events
           /\ last' = [k |-> "notifGot", text |-> notificationText,
                       storage |-> item.storage, dailyMinutes |-> item.dailyMinutes,
                       weeklyMinutes |-> item.weeklyMinutes]
    /\ queue' = Tail(queue)
    /\ UNCHANGED <<timerVars, now, today, sync, local, sent, errorLogs, uncaught,
                   budget, run>>

-----------------------------------------------------------------------------
(* The recurring callback and the wall clock *)

\* one run of the recurring callback of interval `handle`, which is due
Tick(handle) ==
    /\ handle \in DOMAIN intervals
    /\ intervals[handle] <= now
    /\ LET w == update(World)
       IN  SetWorld([w EXCEPT !.iv = IF handle \in DOMAIN w.iv
                                     THEN [w.iv EXCEPT ![handle] = @ + TickPeriod]
                                     ELSE w.iv])
    /\ run' = IF run.on /\ run.ticks < run.n + 2
              THEN [run EXCEPT !.ticks = @ + 1]
              ELSE run
    /\ last' = [k |-> "tick", handle |-> handle, seen |-> refreshTimer.time]
    /\ UNCHANGED <<now, today, sync, local, queue, outVars, budget, events>>

\* half a second passes; the callbacks that are due run first
ClockHalfSecond ==
    /\ now < MaxClockSteps * (TickPeriod \div 2)
    /\ \A h \in DOMAIN intervals : intervals[h] > now
    /\ now' = now + (TickPeriod \div 2)
    /\ last' = [k |-> "clock"]
    /\ UNCHANGED <<timerVars, today, sync, local, queue, outVars, budget, events, run>>

\* a minute passes
ClockMinute ==
    /\ now < MaxMinutes * MsPerMinute
    /\ now' = now + MsPerMinute
    /\ last' = [k |-> "clock"]
    /\ UNCHANGED <<timerVars, today, sync, local, queue, outVars, budget, events, run>>

CalendarDays == 0..13

\* midnight passes
NextDay ==
    /\ budget.day > 0
    /\ today + 1 \in CalendarDays
    /\ budget' = [budget EXCEPT !.day = @ - 1]
    /\ today' = today + 1
    /\ last' = [k |-> "midnight"]
    /\ UNCHANGED <<timerVars, now, sync, local, queue, outVars, events, run>>

-----------------------------------------------------------------------------
(* The environment: the content script, the settings page, the platform *)

\* the content script reports the seconds to the next page refresh
RefreshTimerMsg(seconds) ==
    /\ budget.refresh > 0
    /\ budget' = [budget EXCEPT !.refresh = @ - 1]
    /\ OnMessage([status |-> Str("refresh-timer"), time |-> Num(seconds)])

\* the content script reports that the task was submitted
SubmitTaskMsg ==
    /\ budget.submit > 0
    /\ budget' = [budget EXCEPT !.submit = @ - 1]
    /\ OnMessage([status |-> Str("submit-task")])

\* the content script reports that the task was cancelled
CancelTaskMsg ==
    /\ budget.cancel > 0
    /\ budget' = [budget EXCEPT !.cancel = @ - 1]
    /\ OnMessage([status |-> Str("cancel-task")])

\* the content script records the task it found: taskTime is its ceiling in minutes
TaskStart(taskTime) ==
    /\ budget.start > 0
    /\ budget' = [budget EXCEPT !.start = @ - 1]
    /\ LET items == [key \in {"taskID", "taskTimestamp", "taskTime", "taskActive"} |->
                        CASE key = "taskID"        -> Num(budget.start)
                          [] key = "taskTimestamp" -> Num(now)
                          [] key = "taskTime"      -> Num(taskTime)
                          [] key = "taskActive"    -> Bool(TRUE)]
       IN  /\ local' = Assign(local, items)
           /\ queue' = QueueChange(queue, "local", local, items)
    /\ last' = [k |-> "taskStart"]
    /\ UNCHANGED <<timerVars, now, today, sync, outVars, events, run>>

\* another part of the extension (the settings page, another device) stores items
\* in the synchronized partition
SyncSet(items) ==
    /\ budget.save > 0
    /\ budget' = [budget EXCEPT !.save = @ - 1]
    /\ sync' = Assign(sync, items)
    /\ queue' = QueueChange(queue, "sync", sync, items)
    /\ last' = [k |-> "syncSet", items |-> items]
    /\ UNCHANGED <<timerVars, now, today, local, outVars, events, run>>

\* another part of the extension stores items in the local partition
LocalSet(items) ==
    /\ budget.localSave > 0
    /\ budget' = [budget EXCEPT !.localSave = @ - 1]
    /\ local' = Assign(local, items)
    /\ queue' = QueueChange(queue, "local", local, items)
    /\ last' = [k |-> "localSet", items |-> items]
    /\ UNCHANGED <<timerVars, now, today, sync, outVars, events, run>>

NoBudget ==
    [refresh |-> 0, submit |-> 0, cancel |-> 0, start |-> 0, save |-> 0,
     fail |-> 0, install |-> 0, day |-> 0, notify |-> 0, localSave |-> 0]

\* the background page right after it is loaded, with the stores as given
Loaded(syncItems, localItems, day, inputs) ==
    /\ refreshTimer = [time |-> 0, startTime |-> Null, interval |-> Null]
    /\ intervals = EmptyObject
    /\ nextHandle = 1
    /\ badgeText = ""
    /\ now = 0
    /\ today = day
    /\ sync = syncItems
    /\ local = localItems
    /\ queue = <<>>
    /\ sent = <<>>
    /\ notifications = <<>>
    /\ errorLogs = 0
    /\ uncaught = 0
    /\ budget = inputs
    /\ last = [k |-> "loaded"]
    /\ events = <<>>
    /\ run = NoRun

-----------------------------------------------------------------------------
(* The countdown: refresh-timer messages, saves of refreshTimerSetting,     *)
(* the recurring callback and the clock                                     *)

InitTimer ==
    Loaded(EmptyObject, EmptyObject, 0,
           [NoBudget EXCEPT !.refresh = MaxRefreshMsgs, !.save = MaxSaves])

NextTimer ==
    \/ \E seconds \in 0..MaxTime : RefreshTimerMsg(seconds)
    \/ \E enabled \in BOOLEAN : SyncSet(("refreshTimerSetting" :> Bool(enabled)))
    \/ OnChanged
    \/ \E handle \in DOMAIN intervals : Tick(handle)
    \/ ClockHalfSecond

SpecTimer == InitTimer /\ [][NextTimer]_vars

-----------------------------------------------------------------------------
(* The settings: the notification settings as stored, install events, and   *)
(* totals reported to handleNotifications                                   *)

\* the then-handler of the change listener reports the totals
ReportTotals(dailyMinutes, weeklyMinutes) ==
    /\ budget.notify > 0
    /\ budget' = [budget EXCEPT !.notify = @ - 1]
    /\ queue' = handleNotifications(queue, dailyMinutes, weeklyMinutes, 0)
    /\ last' = [k |-> "reportTotals"]
    /\ UNCHANGED <<timerVars, now, today, sync, local, outVars, events, run>>

\* the notification settings as the settings page stores them, all in one set
NotificationSettings(dailyGoal, weeklyGoal, before, minutes, achieved) ==
    [key \in NotificationKeys |->
        CASE key = "dailyHourGoal"                  -> Num(dailyGoal)
          [] key = "weeklyHourGoal"                 -> Num(weeklyGoal)
          [] key = "beforeGoalNotificationsSetting" -> Bool(before)
          [] key = "notificationMinutes"            -> Num(minutes)
          [] key = "goalNotificationsSetting"       -> Bool(achieved)]

DailyGoalHours == {1, 2}
WeeklyGoalHours == {2}
Thresholds == {15, 60}
MinutesWorked == {0, 45, 60, 105, 120}
InstallReasons == {"install", "update", "chrome_update", "shared_module_update"}

\* the settings as the settings page stored them, or none on a fresh profile
StoredSettings ==
    {EmptyObject} \cup
    {NotificationSettings(dailyGoal, weeklyGoal, before, minutes, achieved) :
        dailyGoal \in DailyGoalHours, weeklyGoal \in WeeklyGoalHours,
        before \in BOOLEAN, minutes \in Thresholds, achieved \in BOOLEAN}

InitSettings ==
    \E settings \in StoredSettings :
        Loaded(settings, EmptyObject, 3,
               [NoBudget EXCEPT !.install = MaxInstalls, !.notify = MaxReports])

NextSettings ==
    \/ \E reason \in InstallReasons : OnInstalled([reason |-> Str(reason)])
    \/ \E dailyMinutes \in MinutesWorked :
          \E weeklyMinutes \in {m \in MinutesWorked : m >= dailyMinutes} :
              ReportTotals(Num(dailyMinutes), Num(weeklyMinutes))
    \/ NotifGot

SpecSettings == InitSettings /\ [][NextSettings]_vars

-----------------------------------------------------------------------------
(* The weekly total: the week's entries as they may be stored, a total      *)
(* stored under today's key by another device, the change listener, the     *)
(* weekly read                                                              *)

\* what may be stored under a date key: nothing, a number, a string
StoredEntries == {Undefined, Num(60), Str("n/a")}
RemoteTotals == {30, 90}

\* the date keys of the week of `day`, Sunday to Saturday
WeekKeySet(day) == {getSpecificDateKey(d) : d \in {c \in CalendarDays : c \div 7 = day \div 7}}

InitWeek ==
    \E entries \in [WeekKeySet(3) -> StoredEntries] :
        Loaded([key \in {x \in WeekKeySet(3) : entries[x] # Undefined} |-> entries[key]],
               EmptyObject, 3, [NoBudget EXCEPT !.save = MaxRemoteTotals])

NextWeek ==
    \/ \E minutes \in RemoteTotals : SyncSet((getDateKey :> Num(minutes)))
    \/ OnChanged
    \/ WeekGot(TRUE)
    \/ NotifGot

SpecWeek == InitWeek /\ [][NextWeek]_vars

-----------------------------------------------------------------------------
(* The countdown under fair ticking: the platform runs a due callback and   *)
(* the wall clock goes on while a countdown is running                      *)

\* the recurring callback that start() created is no longer active
Cancelled == ~(refreshTimer.interval.t = "number" /\ refreshTimer.interval.n \in DOMAIN intervals)

\* the countdown of the last start() has run its clearing tick
Expired == badgeText = "" /\ Cancelled /\ refreshTimer.time < 0

\* half a second passes beyond the clock steps of the model, while a countdown
\* that no call has followed has not had its clearing tick
ClockRunning ==
    /\ now >= MaxClockSteps * (TickPeriod \div 2)
    /\ run.on /\ run.ticks < run.n + 2
    /\ \A h \in DOMAIN intervals : intervals[h] > now
    /\ now' = now + (TickPeriod \div 2)
    /\ last' = [k |-> "clock"]
    /\ UNCHANGED <<timerVars, today, sync, local, queue, outVars, budget, events, run>>

NextTimerLive ==
    \/ NextTimer
    \/ ClockRunning

SpecTimerLive ==
    /\ InitTimer
    /\ [][NextTimerLive]_vars
    /\ WF_vars(\E handle \in DOMAIN intervals : Tick(handle))
    /\ WF_vars(ClockHalfSecond \/ ClockRunning)

-----------------------------------------------------------------------------
(* The partitions: writes to the local partition under the keys the change  *)
(* listener looks for, with a countdown running                             *)

\* what another part of the extension may store in the local partition
LocalItems ==
    {("refreshTimerSetting" :> Bool(enabled)) : enabled \in BOOLEAN}
        \cup {(getDateKey :> Num(minutes)) : minutes \in RemoteTotals}
        \cup {("taskID" :> Num(7))}

InitAreas ==
    Loaded(EmptyObject, EmptyObject, 3,
           [NoBudget EXCEPT !.refresh = MaxRefreshMsgs, !.localSave = MaxLocalSaves])

NextAreas ==
    \/ \E seconds \in 1..MaxTime : RefreshTimerMsg(seconds)
    \/ \E items \in LocalItems : LocalSet(items)
    \/ OnChanged
    \/ WeekGot(TRUE)
    \/ NotifGot
    \/ \E handle \in DOMAIN intervals : Tick(handle)
    \/ ClockHalfSecond

SpecAreas == InitAreas /\ [][NextAreas]_vars

-----------------------------------------------------------------------------
(* Claims about the countdown, checked under SpecTimer *)

\* C3 as the specification states it: after start(n), n >= 1, and no other call,
\* ticks 1..n show n, n-1, ..., 1 and tick n+1 blanks the badge and cancels the
\* recurring callback.
C3_AsStated ==
    (run.on /\ run.n >= 1) =>
        /\ run.ticks \in 1..run.n => badgeText = ToString(run.n - run.ticks + 1)
        /\ run.ticks = run.n + 1 => (badgeText = "" /\ Cancelled)

\* C3, amended: after start(n), n >= 1, and no other call, ticks 1..n+1 show
\* n, n-1, ..., 1, 0 and tick n+2 blanks the badge and cancels the recurring
\* callback (start(3): "3", "2", "1", "0", then "" on the fifth tick).
C3_Countdown ==
    (run.on /\ run.n >= 1) =>
        /\ run.ticks \in 1..(run.n + 1) => badgeText = ToString(run.n - run.ticks + 1)
        /\ run.ticks = run.n + 2 => (badgeText = "" /\ Cancelled)

\* a start(3) whose fifth tick has run
C3_Witness == run.on /\ run.n = 3 /\ run.ticks = 5 /\ badgeText = ""

\* C4: the badge text is empty or the decimal string of a non-negative integer,
\* and the tick that observes a negative remaining time leaves the badge empty.
C4_BadgeNeverNegative ==
    /\ badgeText = "" \/ \E i \in 0..MaxTime : badgeText = ToString(i)
    /\ (last.k = "tick" /\ last.seen < 0) => badgeText = ""

\* a tick has observed a negative remaining time
C4_Witness == last.k = "tick" /\ last.seen < 0 /\ refreshTimer.time < 0 /\ badgeText = ""

\* C11: after a clear() that no start() or restart() has followed, no recurring
\* callback is active and the badge text is empty, whatever ticks have run since.
C11_ClearedStaysBlank ==
    run.cleared => (DOMAIN intervals = {} /\ badgeText = "")

\* the remaining time restart() computes from the state `before` at time `clock`
RestartRemaining(before, clock) ==
    before.rt.time - ((clock - before.rt.startTime.n) \div 1000)

\* C12: restart() with remaining <= 0 changes nothing; otherwise, when the
\* recomputed remaining is <= 0 the badge is blank and no recurring callback is
\* active afterwards, and when it is > 0 that value is rendered and a recurring
\* callback is active.
C12_Restart ==
    (last.k = "changed" /\ last.enabled) =>
        LET before == last.before
        IN  IF before.rt.time <= 0
            THEN World = before
            ELSE LET remaining == RestartRemaining(before, last.clock)
                 IN  IF remaining <= 0
                     THEN badgeText = "" /\ DOMAIN intervals = {}
                     ELSE /\ badgeText = ToString(remaining)
                          /\ refreshTimer.interval.t = "number"
                          /\ refreshTimer.interval.n \in DOMAIN intervals
                          /\ intervals[refreshTimer.interval.n] = last.clock + 1000

\* C16: at most one recurring callback is active.
C16_OneInterval == Cardinality(DOMAIN intervals) <= 1

\* C19: start(n), k ticks, a clear() by disabling the setting and a restart() by
\* enabling it e whole seconds after the start, k <= e < n: restart renders n - e.
C19_WarmRestart ==
    (/\ last.k = "changed" /\ last.enabled
     /\ last.run.warm
     /\ DOMAIN last.before.iv = {}
     /\ (last.clock - last.before.rt.startTime.n) % 1000 = 0
     /\ (last.clock - last.before.rt.startTime.n) \div 1000 >= last.run.ticks
     /\ (last.clock - last.before.rt.startTime.n) \div 1000 < last.run.n)
        => badgeText = ToString(last.run.n
                                  - (last.clock - last.before.rt.startTime.n) \div 1000)

-----------------------------------------------------------------------------
(* Claim about the countdown under fair ticking, checked under SpecTimerLive *)

\* C17: under fair ticking a countdown started by a refresh-timer message that no
\* message or setting change follows eventually has an empty badge and its
\* recurring callback cancelled, and the badge is empty in every state after its
\* clearing tick.
C17_EventuallyExpired ==
    /\ run.on ~> (~run.on \/ Expired)
    /\ []((run.on /\ run.ticks = run.n + 2) => Expired)

\* a countdown started late has expired beyond the clock steps of the model
C17_Witness ==
    /\ run.on /\ run.ticks = run.n + 2
    /\ Expired
    /\ now > MaxClockSteps * (TickPeriod \div 2)

-----------------------------------------------------------------------------
(* Claim about the partitions, checked under SpecAreas *)

\* C14: a change event of the local partition sends no update-calendar message,
\* creates no notification and leaves the countdown as it was.
C14_LocalChangesIgnored ==
    /\ sent = <<>>
    /\ notifications = <<>>
    /\ (last.k = "changed" /\ last.areaName = "local") => World = last.before

-----------------------------------------------------------------------------
(* The task sessions and the totals: task starts, submit-task and          *)
(* cancel-task messages, the storage callbacks, the change listener, the   *)
(* weekly read, the notifications, the clock and the calendar              *)

\* settings as the settings page may have stored them: goals of one hour a day and
\* no hour a week, a notification an hour before a goal
GoalSettings ==
    [key \in NotificationKeys |->
        CASE key = "dailyHourGoal"                  -> Num(1)
          [] key = "weeklyHourGoal"                 -> Num(0)
          [] key = "beforeGoalNotificationsSetting" -> Bool(TRUE)
          [] key = "notificationMinutes"            -> Num(60)
          [] key = "goalNotificationsSetting"       -> Bool(TRUE)]

\* the day the model starts on: Wednesday 31 January, in a week that spans two months
StartDays == {3}

\* the ceilings of the tasks, in minutes
TaskTimes == {1, 2}

Init ==
    \E settings \in {EmptyObject, GoalSettings}, day \in StartDays :
        Loaded(settings, EmptyObject, day,
               [NoBudget EXCEPT !.start = MaxTasks, !.submit = MaxSubmits,
                                !.cancel = MaxCancels, !.fail = MaxFailures,
                                !.day = MaxMidnights])

Next ==
    \/ \E taskTime \in TaskTimes : TaskStart(taskTime)
    \/ SubmitTaskMsg
    \/ CancelTaskMsg
    \/ CancelGot
    \/ SubmitGot
    \/ HoursSyncGot
    \/ HoursLocalGot
    \/ OnChanged
    \/ \E ok \in BOOLEAN : WeekGot(ok)
    \/ NotifGot
    \/ ClockMinute
    \/ NextDay

Spec == Init /\ [][Next]_vars

-----------------------------------------------------------------------------
(* Claims about the task sessions and the totals, checked under Spec *)

Min(a, b) == IF a < b THEN a ELSE b

\* the number stored, 0 for a key that is not stored
StoredMinutes(v) == IF v.t = "number" THEN v.n ELSE 0

\* C1: every write of submitHours stores a value greater than or equal to the
\* value stored under that key immediately before the write.
C1_DailyTotalNeverDecreases ==
    last.k = "hoursLocalGot" =>
        (last.totalMinutes.t = "number"
            /\ last.totalMinutes.n >= StoredMinutes(last.before))

\* the read of taskActive gave false or nothing
Inactive(status) == Prop(status, "taskActive") \in {Bool(FALSE), Undefined}

\* C2: a cancel-task or submit-task whose read of taskActive gave false or nothing
\* writes no key of either partition and schedules nothing.
C2_InactiveIsNoOp ==
    [][(last'.k \in {"cancelGot", "submitGot"} /\ Inactive(last'.status))
          => (sync' = sync /\ local' = local /\ queue' = Tail(queue))]_vars

\* a submit-task or cancel-task was handled after the session had ended
C2_Witness ==
    /\ last.k \in {"cancelGot", "submitGot"}
    /\ Inactive(last.status)
    /\ Prop(local, "taskActive") = Bool(FALSE)

RECURSIVE SumOver(_, _)
\* the sum of the numbers stored in items under the keys
SumOver(items, keys) ==
    IF keys = {} THEN 0
    ELSE LET key == CHOOSE x \in keys : TRUE
         IN  StoredMinutes(items[key]) + SumOver(items, keys \ {key})

RECURSIVE MessagesOf(_, _)
\* the number of update-calendar messages recorded for the first n changes
MessagesOf(evs, n) == IF n = 0 THEN 0 ELSE Len(evs[n].msgs) + MessagesOf(evs, n - 1)

\* C7: a change of today's total to a greater value has, once its weekly read has
\* completed, sent exactly one update-calendar message, with the new value as
\* timeDay and the weekly total as timeWeek; a change to a value that is not
\* greater sends no message and creates no notification.
C7_OneUpdatePerIncrease ==
    /\ Len(sent) = MessagesOf(events, Len(events))
    /\ \A i \in 1..Len(events) :
          LET e == events[i]
          IN  IF StoredMinutes(e.newMinutes) > StoredMinutes(e.oldMinutes)
              THEN /\ e.read \in {"pending", "resolved", "failed"}
                   /\ e.read = "resolved" =>
                         e.msgs = << [status   |-> Str("update-calendar"),
                                      timeDay  |-> e.newMinutes,
                                      timeWeek |-> Num(SumOver(e.items, DOMAIN e.items))] >>
                   /\ e.read # "resolved" => e.msgs = <<>>
              ELSE e.read = "none" /\ e.msgs = <<>> /\ e.notes = 0

\* one change of today's total was reported, another was not an increase
C7_Witness ==
    \E i, j \in 1..Len(events) :
        /\ events[i].read = "resolved"
        /\ Len(events[i].msgs) = 1
        /\ Len(sent) >= 1
        /\ events[j].read = "none"

\* the session that submitHours read had a start timestamp and a ceiling
ValidSession(taskInfo) ==
    /\ Prop(taskInfo, "taskTimestamp").t = "number"
    /\ Prop(taskInfo, "taskTime").t = "number"

\* minutes between the start of the session and the clock
ElapsedMinutes(taskInfo, clock) == (clock - taskInfo["taskTimestamp"].n) \div 60000

\* C8: submitHours writes under its date key previousTotal + min(elapsedMinutes,
\* allottedCeiling), previousTotal being the total it read (0 when the key is not
\* stored), and stores taskActive = false.
C8_CreditedMinutes ==
    (last.k = "hoursLocalGot" /\ ValidSession(last.taskInfo)) =>
        LET previousTotal == StoredMinutes(Prop(last.data, last.dateString))
            credited == Min(ElapsedMinutes(last.taskInfo, last.clock),
                            last.taskInfo["taskTime"].n)
        IN  /\ Prop(sync, last.dateString) = Num(previousTotal + credited)
            /\ Prop(local, "taskActive") = Bool(FALSE)

\* a task that ran past its ceiling was credited, on top of an earlier total
C8_Witness ==
    /\ last.k = "hoursLocalGot"
    /\ ValidSession(last.taskInfo)
    /\ ElapsedMinutes(last.taskInfo, last.clock) > last.taskInfo["taskTime"].n
    /\ StoredMinutes(Prop(last.data, last.dateString)) > 0

Credited(taskInfo, clock) ==
    Min(ElapsedMinutes(taskInfo, clock), taskInfo["taskTime"].n)

\* C15: when another write has raised the day's total between a run's read of it
\* and the run's write, the total the run stores is smaller than the total stored
\* before its write plus the minutes it credits: the other write's minutes are lost.
C15_LostUpdate ==
    (/\ last.k = "hoursLocalGot"
     /\ ValidSession(last.taskInfo)
     /\ StoredMinutes(last.before) > StoredMinutes(Prop(last.data, last.dateString)))
        => /\ Prop(sync, last.dateString).t = "number"
           /\ Prop(sync, last.dateString).n
                  < StoredMinutes(last.before) + Credited(last.taskInfo, last.clock)

\* two runs read no total for the day; the first stored its minute, the second
\* stored its own minute over it
C15_Witness ==
    /\ last.k = "hoursLocalGot"
    /\ ValidSession(last.taskInfo)
    /\ Prop(last.data, last.dateString) = Undefined
    /\ StoredMinutes(last.before) >= 1
    /\ Credited(last.taskInfo, last.clock) >= 1
    /\ Prop(sync, last.dateString).n
           < StoredMinutes(last.before) + Credited(last.taskInfo, last.clock)

\* the minutes stored under all the date keys
AllDaysTotal ==
    LET keys == {getSpecificDateKey(d) : d \in CalendarDays}
    IN  SumOver([key \in keys |-> Prop(sync, key)], keys)

\* C18: while only one session has been started, the minutes stored are at most
\* min(elapsedMinutes, allottedCeiling) of that session.
C18_CreditedOnce ==
    (budget.start = MaxTasks - 1 /\ ValidSession(local))
        => AllDaysTotal <= Credited(local, now)

\* C20: every update-calendar message sent carries a weekly total that is a number
\* not smaller than the day's total it carries.
C20_WeekAtLeastDay ==
    \A i \in 1..Len(sent) :
        /\ sent[i].timeWeek.t = "number"
        /\ sent[i].timeDay.n <= sent[i].timeWeek.n

\* C10: when the batched read of calculateWeekHours fails, the promise is rejected
\* and the change listener logs the failure.
C10_FailedReadIsRejected ==
    (last.k = "weekGot" /\ ~last.ok) => (last.state = "rejected" /\ errorLogs > 0)

-----------------------------------------------------------------------------
(* Claims about the install listener and the notification policy, checked   *)
(* under SpecSettings                                                       *)

\* C5: an install event whose reason is the first install leaves every one of the
\* 22 defaults stored in the synchronized partition; an event with another reason
\* writes nothing.
C5_InstallWritesDefaults ==
    /\ Len(Defaults) = 22
    /\ (last.k = "installed" /\ last.details["reason"] = Str("install")) =>
          \A i \in 1..Len(Defaults) : Prop(sync, Defaults[i][1]) = Defaults[i][2]

ApproachingText(period, remaining) ==
    "You are " \o ToString(remaining) \o ".00 minutes away from achieving your "
        \o period \o " goal! "

AchievedText(period, goalHours) ==
    "You have achieved your " \o period \o " goal of " \o ToString(goalHours) \o " hours! "

\* the message the policy is to emit for a period, "" for none
PolicyMessage(period, goalHours, minutesWorked, before, achieved, threshold) ==
    IF minutesWorked < goalHours * 60 /\ before
          /\ goalHours * 60 - minutesWorked <= threshold
    THEN ApproachingText(period, goalHours * 60 - minutesWorked)
    ELSE IF minutesWorked >= goalHours * 60 /\ achieved
    THEN AchievedText(period, goalHours)
    ELSE ""

\* C9: for each period the approaching message is emitted exactly when
\* minutesWorked < goalHours*60, the before-goal toggle is on and the minutes left
\* are at most the threshold; the achieved message exactly when minutesWorked >=
\* goalHours*60 and the achieved toggle is on; no message otherwise, and never both.
C9_NotificationPolicy ==
    (last.k = "notifGot" /\ DOMAIN last.storage = NotificationKeys) =>
        LET st == last.storage
            Message(period, goal, worked) ==
                PolicyMessage(period, goal.n, worked.n,
                              st["beforeGoalNotificationsSetting"].b,
                              st["goalNotificationsSetting"].b,
                              st["notificationMinutes"].n)
            text == Message("daily", st["dailyHourGoal"], last.dailyMinutes)
                        \o Message("weekly", st["weeklyHourGoal"], last.weeklyMinutes)
        IN  /\ last.text = text
            /\ text # "" => (notifications # <<>> /\ notifications[Len(notifications)] = text)

\* the day is 15 minutes short of its goal while the week has reached its goal
C9_Witness ==
    /\ last.k = "notifGot"
    /\ DOMAIN last.storage = NotificationKeys
    /\ last.storage["dailyHourGoal"].n * 60 - last.dailyMinutes.n = 15
    /\ last.storage["notificationMinutes"].n = 15
    /\ last.storage["beforeGoalNotificationsSetting"].b
    /\ last.weeklyMinutes.n >= last.storage["weeklyHourGoal"].n * 60
    /\ last.storage["goalNotificationsSetting"].b
    /\ last.text = ApproachingText("daily", 15)
                     \o AchievedText("weekly", last.storage["weeklyHourGoal"].n)

-----------------------------------------------------------------------------
(* Claims about the weekly total, checked under SpecWeek *)

\* C6: the weekly read resolves to the sum of the seven values of the week, a key
\* that is not stored and a value that is no number counting as zero.
C6_WeekTotalIsSumOfNumbers ==
    (last.k = "weekGot" /\ last.ok) =>
        /\ last.state = "resolved"
        /\ last.value = Num(SumOver([key \in WeekKeySet(today) |-> Prop(last.items, key)],
                                    WeekKeySet(today)))

====
